---- MODULE Spec2Model ----
(***************************************************************************)
(* Verification model of the benchmark tooling of algebra-lineare:         *)
(*   - mem_profiler.py : the out-of-process memory sampler                 *)
(*   - scratch.py      : the benchmark driver and its result logger        *)
(*   - graphics.py     : the time-window correlator and the aggregation    *)
(*                       of the per-run log                                *)
(* The three programs share no state: each has its own specification.      *)
(***************************************************************************)
EXTENDS Integers, Sequences, FiniteSets, TLC

(***************************************************************************)
(* Bounds of the model.                                                    *)
(***************************************************************************)
\* the sampler is followed for at most this many samples: one more than a
\* full buffer, so the buffer-full flush happens and sampling goes on
MaxSamples == 1001

(***************************************************************************)
(* Constants of mem_profiler.py.                                           *)
(***************************************************************************)
\* mem_profiler.py:47
max_row_buffer == 1000
\* mem_profiler.py:74, the period of the progress print
print_period == 20

VARIABLES
    \* ---- mem_profiler.py ----
    s_pc,       \* position of the sampler in its script
    file,       \* the log at filepath: [exists, lines]
    rows,       \* the row buffer, rows taken[from..to] (empty when to < from)
    num_rows,   \* number of buffered rows, as the script counts them
    sample,     \* counter of the progress print
    taken,      \* number of samples taken so far (row k is the k-th sample)
    closed,     \* outfile.closed
    trigger,    \* the exception that stopped the loop, "none" while it runs
    output,     \* what the script printed at its end
    \* ---- scratch.py ----
    d_pc,       \* position of the driver in its __main__ block
    library,    \* sys.argv[1]
    n_runs,     \* int(sys.argv[2])
    symmetric_matrices,     \* sorted(glob('./data/matrici_def_pos/*.mtx'))
    unsymmetric_matrices,   \* sorted(glob('./data/matrici_non_def_pos/*.mtx'))
    i,          \* main: the run being made, range(num_runs)
    index,      \* main: the matrix being solved, enumerate(matrices)
    results,    \* main: the local dictionary name -> list of results
    sdf,        \* what main returned for the symmetric matrices
    results_sdf,    \* postprocess(sdf)
    results_unsym,  \* what main returned for the unsymmetric matrices
    log_csv,    \* ./log.csv: [exists, lines]
    error,      \* the exception that ended the script, "none" otherwise
    history,    \* what happened at each iteration made: path, run, outcome
    \* ---- graphics.py ----
    mem_log,    \* the memory log read from the csv: rows timestamp, p, v
    g_fn,       \* the function of graphics.py called last, "none" before
    g_args,     \* its arguments besides the memory log
    g_result    \* what it returned

samplerVars == <<s_pc, file, rows, num_rows, sample, taken, closed, trigger, output>>

driverVars == <<d_pc, library, n_runs, symmetric_matrices, unsymmetric_matrices,
                i, index, results, sdf, results_sdf, results_unsym, log_csv,
                error, history>>

graphicsVars == <<mem_log, g_fn, g_args, g_result>>

vars == <<samplerVars, driverVars, graphicsVars>>

\* graphics.py before it is started
GraphicsIdle ==
    /\ mem_log = <<>>
    /\ g_fn = "idle"
    /\ g_args = <<>>
    /\ g_result = <<>>

\* the driver before it is started: the state of the specifications that
\* follow another program
DriverIdle ==
    /\ d_pc = "idle"
    /\ library = "umfpack"
    /\ n_runs = 1
    /\ symmetric_matrices = <<>>
    /\ unsymmetric_matrices = <<>>
    /\ i = 0
    /\ index = 0
    /\ results = <<>>
    /\ sdf = <<>>
    /\ results_sdf = <<>>
    /\ results_unsym = <<>>
    /\ log_csv = [exists |-> FALSE, lines |-> <<>>]
    /\ error = "none"
    /\ history = <<>>

(***************************************************************************)
(* mem_profiler.py                                                         *)
(*                                                                         *)
(* A line of the log is the header or a batch of rows written by one       *)
(* writerows call; a batch is kept as the range of samples it holds, row k *)
(* being the k-th sample taken by this run.                                *)
(***************************************************************************)
Header == [kind |-> "header", from |-> 0, to |-> 0]
Batch(r) == [kind |-> "rows", from |-> r.from, to |-> r.to]

EmptyRows == [from |-> 1, to |-> 0]
IsEmpty(r) == r.to < r.from

\* rows.append(row)
AppendRow(r, k) == IF IsEmpty(r) THEN [from |-> k, to |-> k] ELSE [r EXCEPT !.to = k]

\* csv_writer.writerows(rows): the rows go to the end of the file, in order
WriterowsNothing(f, r) == f
Writerows(f, r) == [f EXCEPT !.lines = Append(@, Batch(r))]

\* lines 36-39: the log is created, with the header as its only line, when
\* no file is at its path; open(filepath, 'w') empties what it opens
WriteHeaderAlways(f) == [exists |-> TRUE, lines |-> <<Header>>]
WriteHeaderIfMissing(f) ==
    IF ~f.exists THEN [exists |-> TRUE, lines |-> <<Header>>] ELSE f

HandledTriggers == {"ProcessLookupError", "NoSuchProcess", "AccessDenied", "KeyboardInterrupt"}
\* what process.memory_info() raises when the target is gone or unreachable
TargetUnavailable == {"ProcessLookupError", "NoSuchProcess", "AccessDenied"}

Except(e) == IF e \in HandledTriggers THEN "handler" ELSE "crashed"

\* the statements inside the try block, lines 52-79
LoopPcs == {"poll", "count", "flush", "reset_rows", "reset_num", "progress", "sleep"}

SamplerInit ==
    /\ s_pc = "start"
    /\ file \in {[exists |-> FALSE, lines |-> <<>>],
                 [exists |-> TRUE, lines |-> <<Header>>]}
    /\ rows = EmptyRows
    /\ num_rows = 0
    /\ sample = 0
    /\ taken = 0
    /\ closed = FALSE
    /\ trigger = "none"
    /\ output = <<>>

\* lines 36-53: create the log with its header when it is not there, open it
\* for appending, enter the try block
Start ==
    /\ s_pc = "start"
    /\ file' = WriteHeaderIfMissing(file)
    /\ rows' = EmptyRows
    /\ num_rows' = 0
    /\ sample' = 0
    /\ s_pc' = "poll"
    /\ UNCHANGED <<taken, closed, trigger, output>>
    /\ UNCHANGED <<driverVars, graphicsVars>>

\* lines 56-65: read the memory of the target, build the row, buffer it
Poll ==
    /\ s_pc = "poll"
    /\ taken < MaxSamples
    /\ taken' = taken + 1
    /\ rows' = AppendRow(rows, taken + 1)
    /\ s_pc' = "count"
    /\ UNCHANGED <<file, num_rows, sample, closed, trigger, output>>
    /\ UNCHANGED <<driverVars, graphicsVars>>

\* line 56 raising: the target vanished or cannot be read
PollFails ==
    /\ s_pc = "poll"
    /\ \E e \in TargetUnavailable :
          /\ trigger' = e
          /\ s_pc' = Except(e)
    /\ UNCHANGED <<file, rows, num_rows, sample, taken, closed, output>>
    /\ UNCHANGED <<driverVars, graphicsVars>>

\* lines 67-68
Count ==
    /\ s_pc = "count"
    /\ num_rows' = num_rows + 1
    /\ s_pc' = IF num_rows + 1 = max_row_buffer THEN "flush" ELSE "progress"
    /\ UNCHANGED <<file, rows, sample, taken, closed, trigger, output>>
    /\ UNCHANGED <<driverVars, graphicsVars>>

\* line 69
Flush ==
    /\ s_pc = "flush"
    /\ file' = Writerows(file, rows)
    /\ s_pc' = "reset_rows"
    /\ UNCHANGED <<rows, num_rows, sample, taken, closed, trigger, output>>
    /\ UNCHANGED <<driverVars, graphicsVars>>

\* line 70
ResetRows ==
    /\ s_pc = "reset_rows"
    /\ rows' = EmptyRows
    /\ s_pc' = "reset_num"
    /\ UNCHANGED <<file, num_rows, sample, taken, closed, trigger, output>>
    /\ UNCHANGED <<driverVars, graphicsVars>>

\* line 71
ResetNum ==
    /\ s_pc = "reset_num"
    /\ num_rows' = 0
    /\ s_pc' = "progress"
    /\ UNCHANGED <<file, rows, sample, taken, closed, trigger, output>>
    /\ UNCHANGED <<driverVars, graphicsVars>>

\* lines 73-77
Progress ==
    /\ s_pc = "progress"
    /\ sample' = IF sample + 1 = print_period THEN 0 ELSE sample + 1
    /\ s_pc' = "sleep"
    /\ UNCHANGED <<file, rows, num_rows, taken, closed, trigger, output>>
    /\ UNCHANGED <<driverVars, graphicsVars>>

\* line 79
Sleep ==
    /\ s_pc = "sleep"
    /\ s_pc' = "poll"
    /\ UNCHANGED <<file, rows, num_rows, sample, taken, closed, trigger, output>>
    /\ UNCHANGED <<driverVars, graphicsVars>>

\* KeyboardInterrupt is raised between two statements of the try block,
\* wherever the script is when the signal arrives
Interrupt ==
    /\ s_pc \in LoopPcs
    /\ trigger' = "KeyboardInterrupt"
    /\ s_pc' = Except("KeyboardInterrupt")
    /\ UNCHANGED <<file, rows, num_rows, sample, taken, closed, output>>
    /\ UNCHANGED <<driverVars, graphicsVars>>

\* lines 83-84
HandlerFlush ==
    /\ s_pc = "handler"
    /\ file' = IF IsEmpty(rows) THEN file ELSE Writerows(file, rows)
    /\ s_pc' = "close"
    /\ UNCHANGED <<rows, num_rows, sample, taken, closed, trigger, output>>
    /\ UNCHANGED <<driverVars, graphicsVars>>

\* lines 86-88
HandlerClose ==
    /\ s_pc = "close"
    /\ closed' = TRUE
    /\ output' = Append(output, "Memory log file closed.")
    /\ s_pc' = "report"
    /\ UNCHANGED <<file, rows, num_rows, sample, taken, trigger>>
    /\ UNCHANGED <<driverVars, graphicsVars>>

\* lines 90-91, then the script ends with exit status 0
HandlerReport ==
    /\ s_pc = "report"
    /\ output' = Append(output, "Finished sampling. Results are in filepath")
    /\ s_pc' = "done"
    /\ UNCHANGED <<file, rows, num_rows, sample, taken, closed, trigger>>
    /\ UNCHANGED <<driverVars, graphicsVars>>

Handler == HandlerFlush \/ HandlerClose \/ HandlerReport

SamplerNext ==
    \/ Start \/ Poll \/ PollFails \/ Count \/ Flush \/ ResetRows \/ ResetNum
    \/ Progress \/ Sleep \/ Interrupt
    \/ HandlerFlush \/ HandlerClose \/ HandlerReport

InitSampler == SamplerInit /\ DriverIdle /\ GraphicsIdle

SpecSampler == InitSampler /\ [][SamplerNext]_vars

\* the except clause runs to its end once entered: the interpreter keeps
\* executing the script
FairSpecSampler == SpecSampler /\ WF_vars(Handler)

\* a further invocation is followed over the last samples of the budget
MaxRerunSamples == 3

\* lines 12-34: the script is started again with the same outfile name, after
\* the invocation before it has ended; the file is what that one left, and
\* the samples keep their numbering across invocations
Invoke ==
    /\ s_pc = "done"
    /\ taken >= MaxSamples - MaxRerunSamples
    /\ s_pc' = "start"
    /\ closed' = FALSE
    /\ trigger' = "none"
    /\ output' = <<>>
    /\ UNCHANGED <<file, rows, num_rows, sample, taken>>
    /\ UNCHANGED <<driverVars, graphicsVars>>

InvocationsNext == SamplerNext \/ Invoke

SpecInvocations == InitSampler /\ [][InvocationsNext]_vars

(***************************************************************************)
(* Claims about the sampler                                                *)
(***************************************************************************)
RECURSIVE RowsOf(_)
\* the data rows of the log, in file order
RowsOf(lines) ==
    IF lines = <<>> THEN <<>>
    ELSE LET l == Head(lines)
             here == IF l.kind = "rows"
                     THEN [k \in 1..(l.to - l.from + 1) |-> l.from + k - 1]
                     ELSE <<>>
         IN here \o RowsOf(Tail(lines))

SamplesTaken == [k \in 1..taken |-> k]

\* C1: when the sampler has been stopped by a handled trigger, the rows of
\* the log are exactly the samples taken, in order, each once
C1_Durability ==
    s_pc = "done" => RowsOf(file.lines) = SamplesTaken

\* the buffer as the handler found it is the last batch of the log
BufferWritten ==
    IsEmpty(rows) \/ (file.lines # <<>> /\ file.lines[Len(file.lines)] = Batch(rows))

NormalCompletion ==
    /\ s_pc = "done"
    /\ closed
    /\ output # <<>>
    /\ output[Len(output)] = "Finished sampling. Results are in filepath"

\* C2: once the loop is stopped by an interrupt or by the target becoming
\* unavailable, the sampler eventually ends normally: the buffered rows are
\* written, the log is closed, the final path is printed, no error escapes;
\* the log is never closed before the buffered rows are written
C2_StopFlushesThenCloses ==
    /\ [](closed => BufferWritten)
    /\ [](s_pc # "crashed")
    /\ (trigger # "none") ~> NormalCompletion

\* a partially filled buffer was written after the target vanished
C2_StoppedWithPartialBuffer ==
    /\ NormalCompletion
    /\ trigger \in TargetUnavailable
    /\ ~IsEmpty(rows)
    /\ rows.to - rows.from + 1 < max_row_buffer
    /\ BufferWritten

\* the log has the header as its first line and nowhere else
HeaderOnce ==
    /\ file.exists
    /\ file.lines # <<>>
    /\ file.lines[1] = Header
    /\ \A k \in 2..Len(file.lines) : file.lines[k] # Header

\* every line of the log stays where it is; lines only come after them
LinesKept ==
    /\ Len(file'.lines) >= Len(file.lines)
    /\ \A k \in 1..Len(file.lines) : file'.lines[k] = file.lines[k]

\* C12: over any number of invocations on the same log path, the log, once
\* an invocation has passed its initialization, holds the header exactly
\* once, as its first line; and no step of any invocation, the one that finds
\* the log already present included, changes or moves a line written before
C12_HeaderOnceAcrossInvocations ==
    /\ []((s_pc # "start" \/ file.exists) => HeaderOnce)
    /\ [][LinesKept]_vars

\* an invocation has ended after appending rows below a batch that an
\* earlier invocation wrote when it was stopped with a partial buffer
C12_SecondInvocationAppended ==
    /\ s_pc = "done"
    /\ \E k \in 2..(Len(file.lines) - 1) :
          /\ file.lines[k].kind = "rows"
          /\ file.lines[k].to - file.lines[k].from + 1 < max_row_buffer
          /\ file.lines[k + 1].kind = "rows"
          /\ file.lines[k + 1].from = file.lines[k].to + 1

(***************************************************************************)
(* numpy reductions used by scratch.py and graphics.py.  A mean or a       *)
(* variance is kept as the exact fraction num/den; den = 0 is the nan that *)
(* numpy returns for an empty input.                                       *)
(***************************************************************************)
RECURSIVE Sum(_)
Sum(xs) == IF xs = <<>> THEN 0 ELSE Head(xs) + Sum(Tail(xs))

Squares(xs) == [k \in 1..Len(xs) |-> xs[k] * xs[k]]

\* np.mean(xs)
Mean(xs) == [num |-> Sum(xs), den |-> Len(xs)]

\* np.var(xs), the population variance: mean(x^2) - mean(x)^2
Var(xs) == [num |-> Len(xs) * Sum(Squares(xs)) - Sum(xs) * Sum(xs),
            den |-> Len(xs) * Len(xs)]

\* equality of two such numbers: nan only equals nan, fractions are compared
\* by cross multiplication
SameNumber(a, b) ==
    IF a.den = 0 \/ b.den = 0 THEN a.den = 0 /\ b.den = 0
    ELSE a.num * b.den = b.num * a.den

(***************************************************************************)
(* scratch.py                                                              *)
(***************************************************************************)
\* the largest number of runs asked on the command line
MaxRuns == 2

Libraries == {"umfpack", "superlu", "mkl"}

Path(d, n) == [dir |-> d, name |-> n]
\* path.split('/')[-2]
ParentName(path) == path.dir
\* path.split('/')[-1]
Basename(path) == path.name

\* the matrix files the two globs can find
SymmetricChoices ==
    { <<>>,
      <<Path("matrici_def_pos", "a.mtx")>>,
      <<Path("matrici_def_pos", "a.mtx"), Path("matrici_def_pos", "b.mtx")>> }
UnsymmetricChoices ==
    { <<>>,
      <<Path("matrici_non_def_pos", "a.mtx")>>,
      <<Path("matrici_non_def_pos", "c.mtx")>> }

\* what one successful solve measures: elapsed time, growth of the resident
\* memory, relative error of the solution
Measurements ==
    { [t |-> 1, m |-> 0, e |-> 0],
      [t |-> 2, m |-> 4, e |-> 1] }

\* what the load and the solve of one iteration can do
Outcomes ==
    { [kind |-> "ok", t |-> x.t, m |-> x.m, e |-> x.e] : x \in Measurements }
    \cup { [kind |-> "MemoryError", t |-> 0, m |-> 0, e |-> 0],
           [kind |-> "InvalidInput", t |-> 0, m |-> 0, e |-> 0] }

Names(matrices) == { Basename(matrices[k]) : k \in 1..Len(matrices) }

\* "AxB" of the matrix; the model keeps the name it belongs to
Dimensions(name) == <<"shape", name>>

\* solve_with_profiling, lines 101-132: does the call of the solver leave the
\* function with the exception it raised?  Only the umfpack branch has a try
SolveRaises(lib, o) == o.kind = "MemoryError" /\ lib # "umfpack"

\* solve_with_profiling, lines 134-151: the result dictionary
SolveResult(lib, name, o) ==
    LET umfpack_mem_error == (lib = "umfpack" /\ o.kind = "MemoryError")
    IN  [elapsed_time |-> IF ~umfpack_mem_error THEN o.t ELSE -1,
         memory_physical |-> IF ~umfpack_mem_error THEN o.m ELSE -1,
         relative_error |-> IF ~umfpack_mem_error THEN o.e ELSE -1,
         solver_library |-> lib,
         matrix_dimensions |-> Dimensions(name)]

\* line 181
EmptyResults(matrices) == [n \in Names(matrices) |-> <<>>]

\* postprocess, lines 211-222: name -> key -> list of the values of the runs
Postprocess(res) ==
    [n \in DOMAIN res |->
        LET runs == res[n]
            ks == 1..Len(runs)
        IN  [elapsed_time |-> [k \in ks |-> runs[k].elapsed_time],
             memory_physical |-> [k \in ks |-> runs[k].memory_physical],
             relative_error |-> [k \in ks |-> runs[k].relative_error],
             solver_library |-> [k \in ks |-> runs[k].solver_library],
             matrix_dimensions |-> [k \in ks |-> runs[k].matrix_dimensions]]]

\* memory > 0, lines 268-269
Positive(x) == x > 0

\* line 256: the error of the first run
RepresentativeError(errors) == errors[1]

\* log_results, lines 253-274: the row of one matrix
CsvRow(matrix_name, r, num_runs) ==
    LET time == r.elapsed_time
        memory == r.memory_physical
    IN  [matrix |-> matrix_name,
         dimensions |-> r.matrix_dimensions[1],
         type |-> "def_pos",
         iter |-> num_runs,
         time_mean |-> Mean(time),
         time_variance |-> Var(time),
         mem_mean |-> Mean(SelectSeq(memory, Positive)),
         mem_variance |-> Var(SelectSeq(memory, Positive)),
         rel_error |-> RepresentativeError(r.relative_error),
         library |-> r.solver_library[1]]

CsvHeader == [matrix |-> "matrix"]

\* the keys of results_sdf in the order the dictionary yields them
SdfKeys == IF results_sdf = <<>> THEN <<>>
           ELSE SelectSeq([k \in 1..Len(symmetric_matrices) |->
                                Basename(symmetric_matrices[k])],
                           LAMBDA n : n \in DOMAIN results_sdf)

\* log_results, line 252: the loop runs over the global results_sdf, not
\* over its argument; shape is "columns" for a postprocessed dictionary and
\* "runs" for one as main returns it.  The exception the loop raises, or
\* "none"
LogLoopError(res, shape) ==
    IF SdfKeys = <<>> THEN "none"
    ELSE IF SdfKeys[1] \notin DOMAIN res THEN "KeyError"
    ELSE IF shape = "runs" THEN "TypeError"
    ELSE IF \E k \in 1..Len(SdfKeys) : SdfKeys[k] \notin DOMAIN res THEN "KeyError"
    ELSE "none"

LogLoopRows(res, num_runs) ==
    [k \in 1..Len(SdfKeys) |-> CsvRow(SdfKeys[k], res[SdfKeys[k]], num_runs)]

DriverInit ==
    /\ d_pc = "start"
    /\ library \in Libraries
    /\ n_runs \in 1..MaxRuns
    /\ symmetric_matrices \in SymmetricChoices
    /\ unsymmetric_matrices \in UnsymmetricChoices
    /\ i = 0
    /\ index = 0
    /\ results = <<>>
    /\ sdf = <<>>
    /\ results_sdf = <<>>
    /\ results_unsym = <<>>
    /\ log_csv = [exists |-> FALSE, lines |-> <<>>]
    /\ error = "none"
    /\ history = <<>>

\* the list main is working on
Matrices == IF d_pc = "main_sdf" THEN symmetric_matrices ELSE unsymmetric_matrices

InMain == d_pc \in {"main_sdf", "main_unsym"}

\* lines 301-302 and 181: main(symmetric_matrices, ...) is entered
CallMainSdf ==
    /\ d_pc = "start"
    /\ results' = EmptyResults(symmetric_matrices)
    /\ i' = 0
    /\ index' = 0
    /\ d_pc' = "main_sdf"
    /\ UNCHANGED <<library, n_runs, symmetric_matrices, unsymmetric_matrices, sdf,
                   results_sdf, results_unsym, log_csv, error, history>>
    /\ UNCHANGED <<samplerVars, graphicsVars>>

\* lines 187-203, one pass of the inner loop: load the matrix, solve, store
Iteration ==
    /\ InMain
    /\ i < n_runs
    /\ index < Len(Matrices)
    /\ \E o \in Outcomes :
         LET path == Matrices[index + 1]
             matrix_name == Basename(path)
             event == [path |-> path, run |-> i, kind |-> o.kind,
                       t |-> o.t, m |-> o.m, e |-> o.e]
         IN  /\ history' = Append(history, event)
             /\ IF o.kind = "InvalidInput" \/ SolveRaises(library, o)
                THEN \* the exception leaves main and the script
                     /\ error' = o.kind
                     /\ d_pc' = "crashed"
                     /\ UNCHANGED <<results, i, index>>
                ELSE /\ results' = [results EXCEPT ![matrix_name] =
                                       Append(@, SolveResult(library, matrix_name, o))]
                     /\ IF index + 1 = Len(Matrices)
                        THEN i' = i + 1 /\ index' = 0
                        ELSE i' = i /\ index' = index + 1
                     /\ UNCHANGED <<error, d_pc>>
    /\ UNCHANGED <<library, n_runs, symmetric_matrices, unsymmetric_matrices, sdf,
                   results_sdf, results_unsym, log_csv>>
    /\ UNCHANGED <<samplerVars, graphicsVars>>

\* the loops of main are over: all runs made, or no matrix to run
MainOver == i = n_runs \/ Matrices = <<>>

\* lines 205-206 and 302: main returns the symmetric results
ReturnSdf ==
    /\ d_pc = "main_sdf"
    /\ MainOver
    /\ sdf' = results
    /\ d_pc' = "postprocess"
    /\ UNCHANGED <<library, n_runs, symmetric_matrices, unsymmetric_matrices, i, index,
                   results, results_sdf, results_unsym, log_csv, error, history>>
    /\ UNCHANGED <<samplerVars, graphicsVars>>

\* lines 303-308 and 181: postprocess(sdf), then main(unsymmetric_matrices, ...)
PostprocessSdf ==
    /\ d_pc = "postprocess"
    /\ results_sdf' = Postprocess(sdf)
    /\ results' = EmptyResults(unsymmetric_matrices)
    /\ i' = 0
    /\ index' = 0
    /\ d_pc' = "main_unsym"
    /\ UNCHANGED <<library, n_runs, symmetric_matrices, unsymmetric_matrices, sdf,
                   results_unsym, log_csv, error, history>>
    /\ UNCHANGED <<samplerVars, graphicsVars>>

\* lines 205-206 and 307: main returns the unsymmetric results
ReturnUnsym ==
    /\ d_pc = "main_unsym"
    /\ MainOver
    /\ results_unsym' = results
    /\ d_pc' = "log_sdf"
    /\ UNCHANGED <<library, n_runs, symmetric_matrices, unsymmetric_matrices, i, index,
                   results, sdf, results_sdf, log_csv, error, history>>
    /\ UNCHANGED <<samplerVars, graphicsVars>>

\* log_results(res, num_runs), lines 227-282.  An exception of the loop comes
\* after the header was written and before any row is
LogResults(res, shape, next) ==
    IF res = <<>>
    THEN /\ d_pc' = next
         /\ UNCHANGED <<log_csv, error>>
    ELSE LET withHeader == IF log_csv.exists THEN log_csv
                           ELSE [exists |-> TRUE, lines |-> <<CsvHeader>>]
             raised == LogLoopError(res, shape)
         IN  IF raised # "none"
             THEN /\ log_csv' = withHeader
                  /\ error' = raised
                  /\ d_pc' = "crashed"
             ELSE /\ log_csv' = [withHeader EXCEPT
                                   !.lines = @ \o LogLoopRows(res, n_runs)]
                  /\ d_pc' = next
                  /\ UNCHANGED error

\* line 310
LogSdf ==
    /\ d_pc = "log_sdf"
    /\ LogResults(results_sdf, "columns", "log_unsym")
    /\ UNCHANGED <<library, n_runs, symmetric_matrices, unsymmetric_matrices, i, index,
                   results, sdf, results_sdf, results_unsym, history>>
    /\ UNCHANGED <<samplerVars, graphicsVars>>

\* line 311
LogUnsym ==
    /\ d_pc = "log_unsym"
    /\ LogResults(results_unsym, "runs", "done")
    /\ UNCHANGED <<library, n_runs, symmetric_matrices, unsymmetric_matrices, i, index,
                   results, sdf, results_sdf, results_unsym, history>>
    /\ UNCHANGED <<samplerVars, graphicsVars>>

DriverNext ==
    \/ CallMainSdf \/ Iteration \/ ReturnSdf \/ PostprocessSdf \/ ReturnUnsym
    \/ LogSdf \/ LogUnsym

\* the sampler before it is started
SamplerIdle ==
    /\ s_pc = "idle"
    /\ file = [exists |-> FALSE, lines |-> <<>>]
    /\ rows = EmptyRows
    /\ num_rows = 0
    /\ sample = 0
    /\ taken = 0
    /\ closed = FALSE
    /\ trigger = "none"
    /\ output = <<>>

InitDriver == DriverInit /\ SamplerIdle /\ GraphicsIdle

SpecDriver == InitDriver /\ [][DriverNext]_vars

(***************************************************************************)
(* Claims about the driver and its logger                                  *)
(***************************************************************************)
Requested ==
    { symmetric_matrices[k] : k \in 1..Len(symmetric_matrices) }
    \cup { unsymmetric_matrices[k] : k \in 1..Len(unsymmetric_matrices) }

\* the directory main works on, also when an exception has just left it
CurrentDir ==
    IF d_pc = "main_sdf" THEN "matrici_def_pos"
    ELSE IF d_pc = "main_unsym" THEN "matrici_non_def_pos"
    ELSE IF d_pc = "crashed" /\ error \in {"MemoryError", "InvalidInput"}
         THEN history[Len(history)].path.dir
    ELSE "none"

\* the per-iteration records the driver holds for a unit
RunRecords(path) ==
    IF path.dir = CurrentDir THEN results[path.name]
    ELSE IF path.dir = "matrici_def_pos"
         THEN IF path.name \in DOMAIN sdf THEN sdf[path.name] ELSE <<>>
    ELSE IF path.name \in DOMAIN results_unsym
         THEN results_unsym[path.name] ELSE <<>>

\* the rows of log.csv below the header
DataRows == SelectSeq(log_csv.lines, LAMBDA l : l # CsvHeader)

\* the unit a row of log.csv stands for: log_results only ever walks the
\* symmetric results
UnitOfRow(row) == Path("matrici_def_pos", row.matrix)

EventsOf(path) == SelectSeq(history, LAMBDA ev : ev.path = path)
OkEventsOf(path) == SelectSeq(history, LAMBDA ev : ev.path = path /\ ev.kind = "ok")
\* the runs whose memory delta can be used: the solve succeeded and the delta
\* is positive.  This is the reading of "valid" closest to the code
ValidMemEventsOf(path) ==
    SelectSeq(history, LAMBDA ev : ev.path = path /\ ev.kind = "ok" /\ ev.m > 0)

TimesOf(evs) == [k \in 1..Len(evs) |-> evs[k].t]
MemsOf(evs) == [k \in 1..Len(evs) |-> evs[k].m]

\* C3: a MemoryError of the solver does not abort the benchmark, whatever
\* the library: the iteration is recorded with -1 for elapsed time and
\* relative error, and the driver goes on
C3_OutOfMemoryIsRecorded ==
    \A k \in 1..Len(history) :
        history[k].kind = "MemoryError" =>
            LET recs == RunRecords(history[k].path)
                n == history[k].run + 1
            IN  /\ error # "MemoryError"
                /\ Len(recs) >= n
                /\ recs[n].elapsed_time = -1
                /\ recs[n].relative_error = -1

\* C6: the time and memory statistics of every record of the aggregate log
\* are those of the successful iterations alone
C6_StatisticsOverSuccessfulRuns ==
    \A k \in 1..Len(DataRows) :
        LET row == DataRows[k]
            times == TimesOf(OkEventsOf(UnitOfRow(row)))
            mems == MemsOf(ValidMemEventsOf(UnitOfRow(row)))
        IN  /\ SameNumber(row.time_mean, Mean(times))
            /\ SameNumber(row.time_variance, Var(times))
            /\ SameNumber(row.mem_mean, Mean(mems))
            /\ SameNumber(row.mem_variance, Var(mems))

\* C7: when the script has ended, the aggregate log holds exactly one record
\* for each requested unit
C7_OneRecordPerUnit ==
    d_pc = "done" =>
        \A p \in Requested :
            Cardinality({k \in 1..Len(DataRows) : DataRows[k].matrix = p.name})
                = Cardinality({q \in Requested : q.name = p.name})

\* C9: the relative error of a record is that of a successful iteration of
\* its unit whenever the unit has one
C9_ErrorOfASuccessfulRun ==
    \A k \in 1..Len(DataRows) :
        LET row == DataRows[k]
            oks == OkEventsOf(UnitOfRow(row))
        IN  oks # <<>> => \E j \in 1..Len(oks) : row.rel_error = oks[j].e

\* C10: when the script has ended after a failure other than out-of-memory
\* in one unit, that failure is what surfaced, and every other requested
\* unit has been run n_runs times and has its record in the log
C10_FatalFailureIsolated ==
    \A k \in 1..Len(history) :
        (d_pc \in {"done", "crashed"} /\ history[k].kind = "InvalidInput") =>
            /\ error = "InvalidInput"
            /\ \A p \in Requested \ {history[k].path} :
                  /\ Len(EventsOf(p)) = n_runs
                  /\ \E j \in 1..Len(DataRows) : DataRows[j].matrix = p.name

\* the record main stores for an iteration that did not raise
RecordOf(ev) ==
    LET sentinel == (ev.kind = "MemoryError")
    IN  [elapsed_time |-> IF sentinel THEN -1 ELSE ev.t,
         memory_physical |-> IF sentinel THEN -1 ELSE ev.m,
         relative_error |-> IF sentinel THEN -1 ELSE ev.e,
         solver_library |-> library,
         matrix_dimensions |-> Dimensions(ev.path.name)]

\* res, as main(matrices, library, n_runs) returned it, has one entry for
\* each unit of the list, and the entry of a unit is the records of the
\* n_runs iterations of that unit, in the order of the iterations
NRecordsPerUnit(matrices, res) ==
    /\ DOMAIN res = { matrices[k].name : k \in 1..Len(matrices) }
    /\ \A k \in 1..Len(matrices) :
          LET p == matrices[k]
              recs == res[p.name]
              evs == EventsOf(p)
          IN  /\ Len(recs) = n_runs
              /\ Len(evs) = n_runs
              /\ \A j \in 1..n_runs :
                    /\ evs[j].run = j - 1
                    /\ recs[j] = RecordOf(evs[j])

\* C11: when main(matrices, library, N) has returned, each unit of the list
\* has exactly N per-iteration records, the k-th being the record of the
\* k-th iteration, and no record of a unit is stored under another unit
C11_NRecordsPerUnit ==
    /\ d_pc = "postprocess" => NRecordsPerUnit(symmetric_matrices, sdf)
    /\ d_pc = "log_sdf" => NRecordsPerUnit(unsymmetric_matrices, results_unsym)

\* main has returned the records of two units run twice, one iteration of
\* which ran out of memory
C11_TwoUnitsReturned ==
    /\ d_pc = "postprocess"
    /\ Len(symmetric_matrices) = 2
    /\ n_runs = 2
    /\ \E k \in 1..Len(history) : history[k].kind = "MemoryError"

(***************************************************************************)
(* graphics.py                                                             *)
(*                                                                         *)
(* A pandas number is [nan, v]: nan is what max() and min() of an empty    *)
(* selection return, and what any arithmetic on nan returns.               *)
(***************************************************************************)
\* the longest memory log and the longest run log followed
MaxLogLen == 2
MaxRunLogLen == 2

Timestamps == {0, 1, 2}
MemoryKB == {1, 2}

Num(x) == [nan |-> FALSE, v |-> x]
NaN == [nan |-> TRUE, v |-> 0]
MinusNaNAsZero(a, b) == Num((IF a.nan THEN 0 ELSE a.v) - (IF b.nan THEN 0 ELSE b.v))
Minus(a, b) == IF a.nan \/ b.nan THEN NaN ELSE Num(a.v - b.v)

RECURSIVE Largest(_)
Largest(xs) == IF Len(xs) = 1 THEN xs[1]
               ELSE LET rest == Largest(Tail(xs))
                    IN  IF Head(xs) >= rest THEN Head(xs) ELSE rest
RECURSIVE Smallest(_)
Smallest(xs) == IF Len(xs) = 1 THEN xs[1]
                ELSE LET rest == Smallest(Tail(xs))
                     IN  IF Head(xs) <= rest THEN Head(xs) ELSE rest

\* Series.max() and Series.min()
SeriesMax(xs) == IF xs = <<>> THEN NaN ELSE Num(Largest(xs))
SeriesFirst(xs) == IF xs = <<>> THEN NaN ELSE Num(xs[1])
SeriesMin(xs) == IF xs = <<>> THEN NaN ELSE Num(Smallest(xs))

PhysicalColumn(log) == [k \in 1..Len(log) |-> log[k].p]
VirtualColumn(log) == [k \in 1..Len(log) |-> log[k].v]

\* mem_log.query('timestamp >= @t_start and timestamp <= @t_stop')
QueryOpenEnd(log, t_start, t_stop) ==
    SelectSeq(log, LAMBDA r : r.timestamp >= t_start /\ r.timestamp < t_stop)
Query(log, t_start, t_stop) ==
    SelectSeq(log, LAMBDA r : r.timestamp >= t_start /\ r.timestamp <= t_stop)

\* lines 52-56
calculate_col_p_memory_maxmin(t_start, t_stop, log) ==
    LET m == Query(log, t_start, t_stop)
    IN  Minus(SeriesMax(PhysicalColumn(m)), SeriesMin(PhysicalColumn(m)))

\* lines 25-30
calculate_col_v_memory_mean(t_start, t_stop, log) ==
    LET from_start == SelectSeq(log, LAMBDA r : r.timestamp >= t_start)
        memory_col == SelectSeq(from_start, LAMBDA r : r.timestamp <= t_stop)
    IN  Minus(SeriesMax(VirtualColumn(memory_col)),
              SeriesMin(VirtualColumn(memory_col)))

\* np.mean and np.var of a list of pandas numbers: nan as soon as one is nan
ValuesOf(ns) == [k \in 1..Len(ns) |-> ns[k].v]
HasNaN(ns) == \E k \in 1..Len(ns) : ns[k].nan
NaNFraction == [num |-> 0, den |-> 0]
MeanOfNumbers(ns) == IF HasNaN(ns) THEN NaNFraction ELSE Mean(ValuesOf(ns))
MatrixNames == <<"a.mtx", "b.mtx">>

\* what max() and min() of a column of pandas numbers look at: they skip nan
NotNaN(ns) == ValuesOf(SelectSeq(ns, LAMBDA n : ~n.nan))

\* lines 60-62
calculate_mem_maxmin(matrix_name, data) ==
    LET selected == SelectSeq(data, LAMBDA r : r.matrix = matrix_name)
        memory_col == [k \in 1..Len(selected) |-> selected[k].memory]
    IN  Minus(SeriesMax(NotNaN(memory_col)), SeriesMin(NotNaN(memory_col)))

\* np.unique(run_log['matrix']): the names met, sorted
Unique(run_log) ==
    SelectSeq(MatrixNames, LAMBDA n : \E k \in 1..Len(run_log) : run_log[k].matrix = n)

RowsOfMatrix(run_log, name) == SelectSeq(run_log, LAMBDA r : r.matrix = name)

\* lines 101-107: the memory used in the window of every run of a matrix
WindowMemory(runs, log) ==
    [k \in 1..Len(runs) |->
        LET m == Query(log, runs[k].start_time, runs[k].end_time)
        IN  Minus(SeriesMax(PhysicalColumn(m)), SeriesMin(PhysicalColumn(m)))]

\* line 89: iters = [30] * len(matrix_names)
Iters == 30

\* create_python_dataframe, lines 73-121: one row for each matrix name.  The
\* columns copied from the first run of the matrix (dimensions, type,
\* rel_error, system) are left out
DataframeRow(name, run_log, log) ==
    LET runs == RowsOfMatrix(run_log, name)
        elapsed == [k \in 1..Len(runs) |-> runs[k].end_time - runs[k].start_time]
        mem == WindowMemory(runs, log)
    IN  [matrix |-> name,
         iter |-> Iters,
         times_mean |-> Mean(elapsed),
         times_var |-> Var(elapsed),
         memory |-> MeanOfNumbers(mem)]

create_python_dataframe(run_log, log) ==
    LET matrix_names == Unique(run_log)
    IN  [k \in 1..Len(matrix_names) |-> DataframeRow(matrix_names[k], run_log, log)]

\* the rows a memory log can hold: the sampler writes them in the order it
\* took them, timestamps never decreasing
LogRows == [timestamp : Timestamps, p : MemoryKB, v : MemoryKB]
RECURSIVE SeqsUpTo(_, _)
SeqsUpTo(S, n) ==
    IF n = 0 THEN {<<>>}
    ELSE LET shorter == SeqsUpTo(S, n - 1)
         IN  shorter \cup {Append(q, x) : q \in shorter, x \in S}
MemLogs ==
    {log \in SeqsUpTo(LogRows, MaxLogLen) :
        \A k \in 1..(Len(log) - 1) : log[k].timestamp <= log[k + 1].timestamp}

\* the rows of the per-run log: the matrix and the window of the solve
RunRows ==
    {r \in [matrix : {"a.mtx", "b.mtx"}, start_time : Timestamps,
            end_time : Timestamps] : r.start_time <= r.end_time}
RunLogs == SeqsUpTo(RunRows, MaxRunLogLen) \ {<<>>}

\* the rows of the table of the MATLAB runs: the matrix and the memory
\* column that lines 173-176 fill with the delta of the window of the run,
\* nan for a window without samples
MatlabRows ==
    [matrix : {"a.mtx", "b.mtx"},
     memory : {NaN} \cup {Num(q[1] - q[2]) :
                             q \in {w \in MemoryKB \X MemoryKB : w[1] >= w[2]}}]
MatlabTables == SeqsUpTo(MatlabRows, MaxRunLogLen)

GraphicsInit ==
    /\ mem_log \in MemLogs
    /\ g_fn = "none"
    /\ g_args = <<>>
    /\ g_result = <<>>

\* each behaviour follows one call: the functions are pure
CallPhysical ==
    /\ g_fn = "none"
    /\ \E t_start \in Timestamps, t_stop \in Timestamps :
          /\ g_args' = <<t_start, t_stop>>
          /\ g_result' = calculate_col_p_memory_maxmin(t_start, t_stop, mem_log)
    /\ g_fn' = "calculate_col_p_memory_maxmin"
    /\ UNCHANGED <<mem_log, samplerVars, driverVars>>

CallVirtual ==
    /\ g_fn = "none"
    /\ \E t_start \in Timestamps, t_stop \in Timestamps :
          /\ g_args' = <<t_start, t_stop>>
          /\ g_result' = calculate_col_v_memory_mean(t_start, t_stop, mem_log)
    /\ g_fn' = "calculate_col_v_memory_mean"
    /\ UNCHANGED <<mem_log, samplerVars, driverVars>>

CallDataframe ==
    /\ g_fn = "none"
    /\ \E run_log \in RunLogs :
          /\ g_args' = run_log
          /\ g_result' = create_python_dataframe(run_log, mem_log)
    /\ g_fn' = "create_python_dataframe"
    /\ UNCHANGED <<mem_log, samplerVars, driverVars>>

\* lines 178-181 and 188-191
CallMemMaxmin ==
    /\ g_fn = "none"
    /\ \E k \in 1..Len(MatrixNames), data \in MatlabTables :
          /\ g_args' = <<MatrixNames[k], data>>
          /\ g_result' = calculate_mem_maxmin(MatrixNames[k], data)
    /\ g_fn' = "calculate_mem_maxmin"
    /\ UNCHANGED <<mem_log, samplerVars, driverVars>>

GraphicsNext == CallPhysical \/ CallVirtual \/ CallDataframe \/ CallMemMaxmin

InitGraphics == GraphicsInit /\ SamplerIdle /\ DriverIdle

SpecGraphics == InitGraphics /\ [][GraphicsNext]_vars

(***************************************************************************)
(* Claims about the correlator and the aggregation of graphics.py          *)
(***************************************************************************)
\* the samples of the memory log inside [t_start, t_stop], bounds included
InWindow(t_start, t_stop) ==
    {k \in 1..Len(mem_log) :
        t_start <= mem_log[k].timestamp /\ mem_log[k].timestamp <= t_stop}

IsQuery == g_fn \in {"calculate_col_p_memory_maxmin", "calculate_col_v_memory_mean"}

\* the metric the called function reads
Metric(k) == IF g_fn = "calculate_col_p_memory_maxmin" THEN mem_log[k].p
             ELSE mem_log[k].v

\* C4: for a window that holds at least one sample, both window functions
\* return the largest minus the smallest value of their metric among the
\* samples with t_start <= timestamp <= t_stop, and among those only
C4_MaxMinusMinOverWindow ==
    (IsQuery /\ InWindow(g_args[1], g_args[2]) # {}) =>
        LET W == InWindow(g_args[1], g_args[2])
        IN  \E hi \in W, lo \in W :
                /\ \A k \in W : Metric(lo) <= Metric(k) /\ Metric(k) <= Metric(hi)
                /\ g_result = Num(Metric(hi) - Metric(lo))

\* the window holds a sample on its upper bound, while a sample outside the
\* window holds a value that would change the result
C4_BoundarySampleCounts ==
    /\ g_fn = "calculate_col_p_memory_maxmin"
    /\ \E k \in InWindow(g_args[1], g_args[2]) : mem_log[k].timestamp = g_args[2]
    /\ \E k \in 1..Len(mem_log) :
          /\ k \notin InWindow(g_args[1], g_args[2])
          /\ \A j \in InWindow(g_args[1], g_args[2]) : mem_log[j].p < mem_log[k].p

\* the runs of a matrix whose window holds no sample
UncoveredRuns(run_log, name) ==
    {k \in 1..Len(RowsOfMatrix(run_log, name)) :
        LET r == RowsOfMatrix(run_log, name)[k]
        IN  InWindow(r.start_time, r.end_time) = {}}

\* C5: for a window that holds no sample the window functions return nan,
\* which is not the zero delta, and the aggregation of a matrix that has
\* such a run carries the nan in its memory column instead of a number
C5_NoCoverageIsNaN ==
    /\ (IsQuery /\ InWindow(g_args[1], g_args[2]) = {}) =>
          (g_result = NaN /\ g_result # Num(0))
    /\ g_fn = "create_python_dataframe" =>
          \A k \in 1..Len(g_result) :
              UncoveredRuns(g_args, g_result[k].matrix) # {} =>
                  g_result[k].memory.den = 0

\* a matrix with one covered and one uncovered run has been aggregated
C5_UncoveredRunAggregated ==
    /\ g_fn = "create_python_dataframe"
    /\ \E k \in 1..Len(g_result) :
          LET n == Len(RowsOfMatrix(g_args, g_result[k].matrix))
              u == UncoveredRuns(g_args, g_result[k].matrix)
          IN  u # {} /\ Cardinality(u) < n /\ g_result[k].memory.den = 0

\* C8: the iteration count of every aggregate record is the number of runs
\* of its matrix in the run log
C8_IterIsNumberOfRuns ==
    g_fn = "create_python_dataframe" =>
        \A k \in 1..Len(g_result) :
            g_result[k].iter = Len(RowsOfMatrix(g_args, g_result[k].matrix))

\* the values the called function takes the largest and the smallest of:
\* the metric of the samples in the window, or the deltas of the runs of the
\* matrix that are numbers
Selected ==
    IF IsQuery
    THEN LET W == SelectSeq([k \in 1..Len(mem_log) |-> k],
                            LAMBDA k : k \in InWindow(g_args[1], g_args[2]))
         IN  [j \in 1..Len(W) |-> Metric(W[j])]
    ELSE IF g_fn = "calculate_mem_maxmin"
    THEN LET own == SelectSeq(g_args[2],
                              LAMBDA r : r.matrix = g_args[1] /\ ~r.memory.nan)
         IN  [j \in 1..Len(own) |-> own[j].memory.v]
    ELSE <<>>

\* C13: when at least one sample is selected, the memory delta returned, for
\* physical and for virtual memory, is a number that is never negative, and
\* it is zero exactly when all the selected samples carry the same value
C13_DeltaNonNegative ==
    Selected # <<>> =>
        /\ ~g_result.nan
        /\ g_result.v >= 0
        /\ g_result.v = 0 <=>
              \A j, k \in 1..Len(Selected) : Selected[j] = Selected[k]

\* the memory falls inside the window, and the delta returned is positive
C13_FallingMemory ==
    /\ IsQuery
    /\ Len(Selected) >= 2
    /\ Selected[1] > Selected[2]
    /\ g_result.v > 0

====
